---- MODULE Spec2Model ----
(***************************************************************************)
(* Content-moderation gateway: the moderation HTTP API (fastapi_app.py),   *)
(* the classifier agents (agents/*.py), the chat demo that gates messages  *)
(* through the API (gradio_app.py), the repeated-trial harness            *)
(* (evals/utils.py) and the launcher of the two services (app.py).         *)
(***************************************************************************)
EXTENDS Integers, Sequences, FiniteSets, TLC

VARIABLES
    backend,        \* who answers at API_BASE_URL: "app" (fastapi_app.py) or "stub" (any HTTP service)
    srv,            \* what the API did with the last request it handled
    pc,             \* position of the chat turn: "idle", "moderating", "persona", "done"
    message,        \* the Gradio message of the turn: [text, files]
    parts,          \* the parts of the message in the order the loop visits them
    idx,            \* index in parts of the next part to moderate
    prompt_parts,   \* chat_with_gemini's prompt_parts
    safety_message, \* chat_with_gemini's safety_message
    past_messages,  \* the gr.State holding the persona model's message history
    mod_log,        \* moderation requests posted during the turn
    gate,           \* last call of check_content_safety
    pair,           \* check_content_safety called directly: its arguments, answers and results
    persona_calls,  \* customer_agent.run calls of the turn
    outcome,        \* how the turn ended: returned tuple or raised error
    ev,             \* evals and tests: create_repeated_cases, result construction, retried runs
    ui,             \* the Gradio interface: its ChatSessionWithTracing and the browser sessions
    launcher        \* app.py: the launcher process, its signal handler and its two children

vars == <<backend, srv, pc, message, parts, idx, prompt_parts, safety_message,
          past_messages, mod_log, gate, pair, persona_calls, outcome, ev,
          ui, launcher>>

chatVars == <<pc, message, parts, idx, prompt_parts, safety_message,
              past_messages, mod_log, gate, persona_calls, outcome>>

(***************************************************************************)
(* Bounds                                                                  *)
(***************************************************************************)
MaxFiles == 1       \* files attached to one chat message
MaxHistory == 2     \* successful turns after which no further turn is started
MaxCases == 2       \* base cases handed to create_repeated_cases
MaxRepeats == 3     \* largest num_repeats
MaxUsers == 2       \* browser sessions opened on the chat interface
MaxTurns == 2       \* chat turns of one browser session
MaxSignals == 2     \* SIGINTs delivered to the launcher

(***************************************************************************)
(* Program constants                                                       *)
(***************************************************************************)
MAX_FILE_SIZE_MB == 5
MAX_FILE_SIZE_BYTES == MAX_FILE_SIZE_MB * 1024 * 1024

USER_API_KEY == "secret-key"
NoCredentials == "<no Authorization header>"
Tokens == {USER_API_KEY, "other-key"}

Categories == {"text", "image", "video", "audio"}
Flags == {"contains_pii", "is_unfriendly", "is_unprofessional", "is_disturbing", "is_low_quality"}

Range(s) == {s[i] : i \in DOMAIN s}

(***************************************************************************)
(* types/moderation_result.py: the result classes and their fields.        *)
(* Every Field(...) has no default, so every field is required.            *)
(***************************************************************************)
ModerationResult == {"rationale"}
TextModerationResult == ModerationResult \cup {"contains_pii", "is_unfriendly", "is_unprofessional"}
ImageModerationResult == ModerationResult \cup {"contains_pii", "is_disturbing", "is_low_quality"}
VideoModerationResult == ModerationResult \cup {"contains_pii", "is_disturbing", "is_low_quality"}
AudioModerationResult ==
    ModerationResult \cup {"transcription", "contains_pii", "is_unfriendly", "is_unprofessional"}

Rationales == {"looks fine"}
Transcriptions == {"call me at 555-0100"}

\* A dict (JSON object or model instance) with exactly the keys in K:
\* strings for rationale and transcription, booleans for the flags.
DictsOver(K) ==
    { [k \in K |-> IF k = "rationale" THEN r
                   ELSE IF k = "transcription" THEN t
                   ELSE b[k]] :
        r \in Rationales, t \in Transcriptions, b \in [K \cap Flags -> BOOLEAN] }

\* Instances of a result class: [class, fields].
Instances(cls, fields) == { [class |-> cls, fields |-> d] : d \in DictsOver(fields) }

(***************************************************************************)
(* utils.py: MIME sniffing.  A MIME type is the token sequence             *)
(* <<type, "/", subtype>>; NoMime is filetype.guess returning None.        *)
(***************************************************************************)
NoMime == <<>>
Mimes == {<<"image", "/", "png">>, <<"video", "/", "mp4">>, <<"audio", "/", "mpeg">>,
          <<"application", "/", "pdf">>}

RECURSIVE Concat(_)
Concat(toks) == IF toks = <<>> THEN "" ELSE Head(toks) \o Concat(Tail(toks))

\* mime_type.split("/")[0]
SplitFirst(m) ==
    LET stop == CHOOSE i \in 1..(Len(m) + 1) :
                    /\ (i = Len(m) + 1 \/ m[i] = "/")
                    /\ \A j \in 1..(i - 1) : m[j] # "/"
    IN Concat(SubSeq(m, 1, stop - 1))

\* A file on disk or an uploaded payload: its name, what filetype.guess
\* finds in its bytes, and its size in bytes.
FileNames == {"upload"}
FileSizes == {MAX_FILE_SIZE_BYTES, MAX_FILE_SIZE_BYTES + 1}
FileUniverse == [path : FileNames, mime : Mimes \cup {NoMime}, size : FileSizes]

detect_file_type(file, context) ==
    IF file.mime = NoMime
    THEN [ok |-> FALSE,
          error |-> [type |-> "ValueError", msg |-> "Unsupported file type: ", arg |-> context]]
    ELSE [ok |-> TRUE, value |-> file.mime]

(***************************************************************************)
(* agents/*.py: one Agent per category, each with its output_type, and     *)
(* the moderate_* function that runs it once.  The generative model is the *)
(* environment: a run either fails or yields an instance of output_type.   *)
(***************************************************************************)
ClassFields(cls) ==
    CASE cls = "ModerationResult" -> ModerationResult
      [] cls = "TextModerationResult" -> TextModerationResult
      [] cls = "ImageModerationResult" -> ImageModerationResult
      [] cls = "VideoModerationResult" -> VideoModerationResult
      [] cls = "AudioModerationResult" -> AudioModerationResult

text_moderation_agent == [name |-> "text_moderation_agent", output_type |-> "ModerationResult"]
image_moderation_agent == [name |-> "image_moderation_agent", output_type |-> "ImageModerationResult"]
video_moderation_agent == [name |-> "video_moderation_agent", output_type |-> "VideoModerationResult"]
audio_moderation_agent == [name |-> "audio_moderation_agent", output_type |-> "AudioModerationResult"]

ModelFailure == [type |-> "UnexpectedModelBehavior", msg |-> "model call failed", arg |-> ""]

\* The possible outcomes of one agent.run(...).
AgentRuns(agent) ==
    {[ok |-> FALSE, error |-> ModelFailure]} \cup
    {[ok |-> TRUE, output |-> i] : i \in Instances(agent.output_type, ClassFields(agent.output_type))}

\* moderate_*: one agent.run, its output returned and its error propagated.
\* calls lists the agents that were run.
moderate_text(run) ==
    IF run.ok THEN [ok |-> TRUE, value |-> run.output, calls |-> <<text_moderation_agent.name>>]
    ELSE [ok |-> FALSE, error |-> run.error, calls |-> <<text_moderation_agent.name>>]

\* Variant: a failed agent.run is tried a second time before giving up.
moderate_image_RetryOnce(run) ==
    IF run.ok THEN [ok |-> TRUE, value |-> run.output, calls |-> <<image_moderation_agent.name>>]
    ELSE [ok |-> FALSE, error |-> run.error,
          calls |-> <<image_moderation_agent.name, image_moderation_agent.name>>]

moderate_image(run) ==
    IF run.ok THEN [ok |-> TRUE, value |-> run.output, calls |-> <<image_moderation_agent.name>>]
    ELSE [ok |-> FALSE, error |-> run.error, calls |-> <<image_moderation_agent.name>>]

moderate_video(run) ==
    IF run.ok THEN [ok |-> TRUE, value |-> run.output, calls |-> <<video_moderation_agent.name>>]
    ELSE [ok |-> FALSE, error |-> run.error, calls |-> <<video_moderation_agent.name>>]

moderate_audio(run) ==
    IF run.ok THEN [ok |-> TRUE, value |-> run.output, calls |-> <<audio_moderation_agent.name>>]
    ELSE [ok |-> FALSE, error |-> run.error, calls |-> <<audio_moderation_agent.name>>]

(***************************************************************************)
(* fastapi_app.py: the moderation API.                                     *)
(***************************************************************************)
TextRoute == "/api/v1/moderate_text"
ImageRoute == "/api/v1/moderate_image_file"
VideoRoute == "/api/v1/moderate_video_file"
AudioRoute == "/api/v1/moderate_audio_file"
HealthRoute == "/api/v1/health"
ModerationRoutes == {TextRoute, ImageRoute, VideoRoute, AudioRoute}
Routes == ModerationRoutes \cup {HealthRoute}

Texts == {"", "hello"}
NoFile == [path |-> "", mime |-> NoMime, size |-> 0]
NoRun == [ok |-> FALSE, error |-> ModelFailure]
NoRequest == [path |-> "", credentials |-> "", text |-> "", file |-> NoFile]

\* The requests a client can send: a JSON {text} body for the text route, a
\* multipart file for the media routes, nothing for the health route.
Requests ==
    [path : {TextRoute}, credentials : Tokens \cup {NoCredentials}, text : Texts, file : {NoFile}]
    \cup [path : ModerationRoutes \ {TextRoute}, credentials : Tokens \cup {NoCredentials},
          text : {""}, file : FileUniverse]
    \cup [path : {HealthRoute}, credentials : Tokens \cup {NoCredentials}, text : {""}, file : {NoFile}]

\* Variant: any presented bearer token is accepted.
validate_api_key_AnyToken(credentials) ==
    IF credentials = NoCredentials
    THEN [ok |-> FALSE, status |-> 403, detail |-> "Not authenticated"]
    ELSE [ok |-> TRUE, value |-> credentials]

\* security = HTTPBearer() followed by validate_api_key.  HTTPBearer itself
\* refuses a request without bearer credentials (modelled as 403 "Not
\* authenticated"); validate_api_key refuses a token other than USER_API_KEY
\* with 401.
validate_api_key(credentials) ==
    IF credentials = NoCredentials
    THEN [ok |-> FALSE, status |-> 403, detail |-> "Not authenticated"]
    ELSE IF credentials # USER_API_KEY
    THEN [ok |-> FALSE, status |-> 401, detail |-> "Invalid user API key"]
    ELSE [ok |-> TRUE, value |-> credentials]

\* Variant: the dependency is declared on the moderation routes only.
ProtectedRoutes_ModerationOnly == ModerationRoutes

\* app = FastAPI(dependencies=[Depends(validate_api_key)]): the routes the
\* dependency is applied to.
ProtectedRoutes == Routes

response_model(path) ==
    CASE path = TextRoute -> "TextModerationResult"
      [] path = ImageRoute -> "ImageModerationResult"
      [] path = VideoRoute -> "VideoModerationResult"
      [] path = AudioRoute -> "AudioModerationResult"

RouteAgent(path) ==
    CASE path = TextRoute -> text_moderation_agent
      [] path = ImageRoute -> image_moderation_agent
      [] path = VideoRoute -> video_moderation_agent
      [] path = AudioRoute -> audio_moderation_agent

RunsFor(path) == IF path \in ModerationRoutes THEN AgentRuns(RouteAgent(path)) ELSE {NoRun}

\* The endpoint functions.  Each yields [ok, value | error, calls, sniffed].
moderate_text_endpoint(req, run) ==
    [sniffed |-> FALSE] @@ moderate_text(run)

moderate_image_file_endpoint(req, run) ==
    LET mime_type == detect_file_type(req.file, req.file.path)
    IN IF ~mime_type.ok
       THEN [ok |-> FALSE, error |-> mime_type.error, calls |-> <<>>, sniffed |-> TRUE]
       ELSE [sniffed |-> TRUE] @@ moderate_image(run)

moderate_video_file_endpoint(req, run) ==
    LET mime_type == detect_file_type(req.file, req.file.path)
    IN IF ~mime_type.ok
       THEN [ok |-> FALSE, error |-> mime_type.error, calls |-> <<>>, sniffed |-> TRUE]
       ELSE [sniffed |-> TRUE] @@ moderate_video(run)

moderate_audio_file_endpoint(req, run) ==
    LET mime_type == detect_file_type(req.file, req.file.path)
    IN IF ~mime_type.ok
       THEN [ok |-> FALSE, error |-> mime_type.error, calls |-> <<>>, sniffed |-> TRUE]
       ELSE [sniffed |-> TRUE] @@ moderate_audio(run)

health_check == [status |-> "ok"]

Restrict(f, K) == [k \in K |-> f[k]]

\* What the API did with a request that was never handled.
NoTrace ==
    [req |-> NoRequest, path |-> "", authorized |-> FALSE, sniffed |-> FALSE, calls |-> <<>>,
     run |-> NoRun, returned |-> "none", status |-> 0, ok |-> FALSE, body |-> <<>>, text |-> ""]

\* FastAPI's handling of the endpoint's return value under response_model:
\* the value must provide every field of the model, and only the model's
\* fields are serialized; an exception or a value that fails validation is
\* a 500.
Serialize(path, r) ==
    LET base == [NoTrace EXCEPT !.path = path, !.authorized = TRUE,
                                !.sniffed = r.sniffed, !.calls = r.calls]
    IN IF ~r.ok
       THEN [base EXCEPT !.status = 500, !.text = "Internal Server Error"]
       ELSE IF ClassFields(response_model(path)) \subseteq DOMAIN r.value.fields
       THEN [base EXCEPT !.returned = r.value.class, !.status = 200, !.ok = TRUE,
                         !.body = Restrict(r.value.fields, ClassFields(response_model(path)))]
       ELSE [base EXCEPT !.returned = r.value.class, !.status = 500,
                         !.text = "Internal Server Error"]

\* One request through the app: the app-level dependency first, then the
\* endpoint function, then the response.
\* run is what agent.run did, when the request got as far as a classifier.
HandleRequest(req, run) ==
    LET auth == IF req.path \in ProtectedRoutes THEN validate_api_key(req.credentials)
                ELSE [ok |-> TRUE, value |-> req.credentials]
        out ==
          IF ~auth.ok
          THEN [NoTrace EXCEPT !.path = req.path, !.status = auth.status, !.text = auth.detail]
          ELSE CASE req.path = TextRoute -> Serialize(req.path, moderate_text_endpoint(req, run))
                 [] req.path = ImageRoute -> Serialize(req.path, moderate_image_file_endpoint(req, run))
                 [] req.path = VideoRoute -> Serialize(req.path, moderate_video_file_endpoint(req, run))
                 [] req.path = AudioRoute -> Serialize(req.path, moderate_audio_file_endpoint(req, run))
                 [] req.path = HealthRoute ->
                       [NoTrace EXCEPT !.path = req.path, !.authorized = TRUE, !.status = 200,
                                       !.ok = TRUE, !.body = health_check]
    IN [out EXCEPT !.req = req, !.run = IF out.calls # <<>> THEN run ELSE NoRun]

(***************************************************************************)
(* gradio_app.py: the chat demo's client side of moderation.               *)
(***************************************************************************)
\* Variant: the video entry carries the image endpoint.
MODERATION_CONFIG_VideoToImageRoute(content_type) ==
    CASE content_type = "text" ->
            [endpoint |-> TextRoute,
             unsafe_flags |-> <<"is_unfriendly", "is_unprofessional", "contains_pii">>]
      [] content_type = "image" ->
            [endpoint |-> ImageRoute,
             unsafe_flags |-> <<"contains_pii", "is_disturbing", "is_low_quality">>]
      [] content_type = "video" ->
            [endpoint |-> ImageRoute,
             unsafe_flags |-> <<"contains_pii", "is_disturbing", "is_low_quality">>]
      [] content_type = "audio" ->
            [endpoint |-> AudioRoute,
             unsafe_flags |-> <<"is_unfriendly", "is_unprofessional", "contains_pii">>]

MODERATION_CONFIG(content_type) ==
    CASE content_type = "text" ->
            [endpoint |-> TextRoute,
             unsafe_flags |-> <<"is_unfriendly", "is_unprofessional", "contains_pii">>]
      [] content_type = "image" ->
            [endpoint |-> ImageRoute,
             unsafe_flags |-> <<"contains_pii", "is_disturbing", "is_low_quality">>]
      [] content_type = "video" ->
            [endpoint |-> VideoRoute,
             unsafe_flags |-> <<"contains_pii", "is_disturbing", "is_low_quality">>]
      [] content_type = "audio" ->
            [endpoint |-> AudioRoute,
             unsafe_flags |-> <<"is_unfriendly", "is_unprofessional", "contains_pii">>]

ConfigKeys == {"text", "image", "video", "audio"}

None == "<None>"
NoResponse == [status |-> 0, ok |-> FALSE, body |-> <<>>, text |-> ""]

ResponseOf(trace) ==
    [status |-> trace.status, ok |-> trace.ok, body |-> trace.body, text |-> trace.text]

KeyError(key) == [type |-> "KeyError", msg |-> "", arg |-> key]
Unavailable(response) ==
    [type |-> "RuntimeError", msg |-> "Moderation service unavailable. Please try again later. ",
     arg |-> response.text]

\* What a moderation call hands back when it raises.
Raised(error, posts) ==
    [ok |-> FALSE, error |-> error, posts |-> posts, content_type |-> "", mime_type |-> NoMime,
     result |-> <<>>, feedback |-> ""]

\* _call_text_moderation, up to the POST: the request it sends.
TextRequest(text) ==
    [path |-> MODERATION_CONFIG("text").endpoint, credentials |-> USER_API_KEY,
     text |-> text, file |-> NoFile]

\* Variant: a non-success response is read as a verdict with no flag set.
call_text_moderation_DefaultSafe(text, response) ==
    LET posts == <<TextRequest(text)>>
    IN IF ~response.ok
       THEN [ok |-> TRUE, posts |-> posts, content_type |-> "text",
             mime_type |-> <<"text", "/", "plain">>,
             result |-> [k \in TextModerationResult |-> IF k = "rationale" THEN "" ELSE FALSE],
             feedback |-> ""]
       ELSE IF "rationale" \notin DOMAIN response.body THEN Raised(KeyError("rationale"), posts)
       ELSE [ok |-> TRUE, posts |-> posts, content_type |-> "text",
             mime_type |-> <<"text", "/", "plain">>, result |-> response.body,
             feedback |-> response.body["rationale"]]

\* _call_text_moderation, given the response to its POST.
call_text_moderation(text, response) ==
    LET posts == <<TextRequest(text)>>
    IN IF ~response.ok THEN Raised(Unavailable(response), posts)
       ELSE IF "rationale" \notin DOMAIN response.body THEN Raised(KeyError("rationale"), posts)
       ELSE [ok |-> TRUE, posts |-> posts, content_type |-> "text",
             mime_type |-> <<"text", "/", "plain">>, result |-> response.body,
             feedback |-> response.body["rationale"]]

\* f"{size_mb:.1f}": megabytes with one decimal, rounded to the nearest tenth.
FormatMB(size) ==
    LET tenths == (size * 20 + 1024 * 1024) \div (2 * 1024 * 1024)
    IN ToString(tenths \div 10) \o "." \o ToString(tenths % 10)

\* Variant: a MIME type without an entry in the table is moderated as an image.
MediaRequest_FallbackToImage(media) ==
    LET mime_type == detect_file_type(media, media.path)
        content_type == IF SplitFirst(mime_type.value) \in ConfigKeys
                        THEN SplitFirst(mime_type.value) ELSE "image"
    IN IF ~mime_type.ok THEN [ok |-> FALSE, error |-> mime_type.error]
       ELSE IF media.size > MAX_FILE_SIZE_BYTES
       THEN [ok |-> FALSE,
             error |-> [type |-> "ValueError", msg |-> "File too large: ",
                        arg |-> FormatMB(media.size) \o "MB. Maximum size is "
                                \o ToString(MAX_FILE_SIZE_MB) \o "MB."]]
       ELSE [ok |-> TRUE, mime_type |-> mime_type.value, content_type |-> content_type,
             request |-> [path |-> MODERATION_CONFIG(content_type).endpoint,
                          credentials |-> USER_API_KEY, text |-> "", file |-> media]]

\* Variant: the size check is "file_size >= MAX_FILE_SIZE_BYTES".
MediaRequest_SizeAtLeast(media) ==
    LET mime_type == detect_file_type(media, media.path)
    IN IF ~mime_type.ok THEN [ok |-> FALSE, error |-> mime_type.error]
       ELSE IF media.size >= MAX_FILE_SIZE_BYTES
       THEN [ok |-> FALSE,
             error |-> [type |-> "ValueError", msg |-> "File too large: ",
                        arg |-> FormatMB(media.size) \o "MB. Maximum size is "
                                \o ToString(MAX_FILE_SIZE_MB) \o "MB."]]
       ELSE IF SplitFirst(mime_type.value) \notin ConfigKeys
       THEN [ok |-> FALSE, error |-> KeyError(SplitFirst(mime_type.value))]
       ELSE [ok |-> TRUE, mime_type |-> mime_type.value,
             content_type |-> SplitFirst(mime_type.value),
             request |-> [path |-> MODERATION_CONFIG(SplitFirst(mime_type.value)).endpoint,
                          credentials |-> USER_API_KEY, text |-> "", file |-> media]]

\* _call_media_moderation, up to the POST: sniffing, the size ceiling and
\* the lookup of the endpoint.
MediaRequest(media) ==
    LET mime_type == detect_file_type(media, media.path)
    IN IF ~mime_type.ok THEN [ok |-> FALSE, error |-> mime_type.error]
       ELSE IF media.size > MAX_FILE_SIZE_BYTES
       THEN [ok |-> FALSE,
             error |-> [type |-> "ValueError", msg |-> "File too large: ",
                        arg |-> FormatMB(media.size) \o "MB. Maximum size is "
                                \o ToString(MAX_FILE_SIZE_MB) \o "MB."]]
       ELSE IF SplitFirst(mime_type.value) \notin ConfigKeys
       THEN [ok |-> FALSE, error |-> KeyError(SplitFirst(mime_type.value))]
       ELSE [ok |-> TRUE, mime_type |-> mime_type.value,
             content_type |-> SplitFirst(mime_type.value),
             request |-> [path |-> MODERATION_CONFIG(SplitFirst(mime_type.value)).endpoint,
                          credentials |-> USER_API_KEY, text |-> "", file |-> media]]

\* Variant: the audio special case is missing; feedback is the rationale.
call_media_moderation_NoTranscription(media, response) ==
    LET plan == MediaRequest(media)
    IN IF ~plan.ok THEN Raised(plan.error, <<>>)
       ELSE IF ~response.ok THEN Raised(Unavailable(response), <<plan.request>>)
       ELSE IF "rationale" \notin DOMAIN response.body
       THEN Raised(KeyError("rationale"), <<plan.request>>)
       ELSE [ok |-> TRUE, posts |-> <<plan.request>>, content_type |-> plan.content_type,
             mime_type |-> plan.mime_type, result |-> response.body,
             feedback |-> response.body["rationale"]]

\* _call_media_moderation, given the response to its POST (if it gets there).
call_media_moderation(media, response) ==
    LET plan == MediaRequest(media)
    IN IF ~plan.ok THEN Raised(plan.error, <<>>)
       ELSE IF ~response.ok THEN Raised(Unavailable(response), <<plan.request>>)
       ELSE IF "rationale" \notin DOMAIN response.body
       THEN Raised(KeyError("rationale"), <<plan.request>>)
       ELSE [ok |-> TRUE, posts |-> <<plan.request>>, content_type |-> plan.content_type,
             mime_type |-> plan.mime_type, result |-> response.body,
             feedback |->
                IF plan.content_type = "audio" /\ "transcription" \in DOMAIN response.body
                THEN "Transcription: \"" \o response.body["transcription"] \o "\"\n\n"
                        \o response.body["rationale"]
                ELSE response.body["rationale"]]

\* Variant: the loop returns after looking at the first flag only.
UnsafeFlagLoop_FirstFlagOnly(result, flags, i) ==
    IF Len(flags) = 0 THEN [ok |-> TRUE, is_safe |-> TRUE]
    ELSE IF flags[1] \notin DOMAIN result THEN [ok |-> FALSE, error |-> KeyError(flags[1])]
    ELSE [ok |-> TRUE, is_safe |-> ~result[flags[1]]]

\* The loop over config["unsafe_flags"]: the first flag that is true makes
\* the content unsafe; reading a flag the result lacks raises KeyError.
RECURSIVE UnsafeFlagLoop(_, _, _)
UnsafeFlagLoop(result, flags, i) ==
    IF i > Len(flags) THEN [ok |-> TRUE, is_safe |-> TRUE]
    ELSE IF flags[i] \notin DOMAIN result THEN [ok |-> FALSE, error |-> KeyError(flags[i])]
    ELSE IF result[flags[i]] THEN [ok |-> TRUE, is_safe |-> FALSE]
    ELSE UnsafeFlagLoop(result, flags, i + 1)

\* Variant: the gate reads all five flags of the flat schema, whatever the
\* content type.
GateFlags_EveryFlag(content_type) ==
    <<"is_unfriendly", "is_unprofessional", "contains_pii", "is_disturbing", "is_low_quality">>

\* The flag list the gate reads for a content type.
GateFlags(content_type) == MODERATION_CONFIG(content_type).unsafe_flags

\* check_content_safety(text=..., media=...), given the response to the POST.
check_content_safety(text, media, response) ==
    LET call == IF text # None THEN call_text_moderation(text, response)
                ELSE IF media # NoFile THEN call_media_moderation(media, response)
                ELSE Raised([type |-> "ValueError",
                             msg |-> "Must provide exactly one of text or media", arg |-> ""],
                            <<>>)
        blank == call @@ [is_safe |-> FALSE, flags |-> <<>>]
    IN IF ~call.ok THEN blank
       ELSE LET loop == UnsafeFlagLoop(call.result, GateFlags(call.content_type), 1)
            IN IF ~loop.ok
               THEN [ok |-> FALSE, error |-> loop.error, flags |-> GateFlags(call.content_type)]
                    @@ blank
               ELSE IF ~loop.is_safe
               THEN [is_safe |-> FALSE, feedback |-> "Content flagged: " \o call.feedback,
                     flags |-> GateFlags(call.content_type)] @@ blank
               ELSE [is_safe |-> TRUE, flags |-> GateFlags(call.content_type)] @@ blank

\* The request check_content_safety will POST, if it gets that far.
PlannedRequest(text, media) ==
    IF text # None THEN TextRequest(text)
    ELSE IF media # NoFile /\ MediaRequest(media).ok THEN MediaRequest(media).request
    ELSE NoRequest

(***************************************************************************)
(* Who answers the chat demo's POST.  With backend "app" it is this        *)
(* repository's API, reached with a generative model that may answer       *)
(* anything its agent's output_type allows; with backend "stub" it is any  *)
(* HTTP service at API_BASE_URL, answering any JSON object or any failure. *)
(***************************************************************************)
JsonKeys == Flags \cup {"rationale", "transcription"}
\* The JSON objects the stub answers with: the empty object, the flat schema
\* (every key) and the result classes of types/moderation_result.py.
StubKeySets ==
    {{}, JsonKeys, ModerationResult, TextModerationResult, ImageModerationResult,
     VideoModerationResult, AudioModerationResult}
StubBodies == UNION {DictsOver(K) : K \in StubKeySets}
StubAnswers ==
    {[NoTrace EXCEPT !.status = 200, !.ok = TRUE, !.body = b] : b \in StubBodies}
    \cup {[NoTrace EXCEPT !.status = 500, !.text = "Internal Server Error"],
          [NoTrace EXCEPT !.status = 401, !.text = "Invalid user API key"]}

Answers(req) ==
    IF req = NoRequest THEN {NoTrace}
    ELSE IF backend = "app" THEN {HandleRequest(req, run) : run \in RunsFor(req.path)}
    ELSE StubAnswers

(***************************************************************************)
(* gradio_app.py: ChatSessionWithTracing.chat_with_gemini                  *)
(***************************************************************************)
Preamble == "This is the next message from the support agent:"
BlockedResponse ==
    "[This content was flagged by moderation and not sent to the AI. Please try again.]"
WarningSign == "(warning sign) "
NoError == [type |-> "", msg |-> "", arg |-> ""]
NoOutcome == [kind |-> "none", error |-> NoError, response |-> "", messages |-> <<>>, feedback |-> ""]
NoGate == [called |-> FALSE]

RECURSIVE SeqsUpTo(_, _)
SeqsUpTo(S, n) ==
    IF n = 0 THEN {<<>>}
    ELSE SeqsUpTo(S, n - 1) \cup {Append(q, x) : q \in SeqsUpTo(S, n - 1), x \in S}

\* What the MultimodalTextbox submits: {"text": ..., "files": [...]}.
Messages == [text : Texts, files : SeqsUpTo(FileUniverse, MaxFiles)]

\* The parts the loop over message.items() reaches, in its order: the text
\* when it is non-empty, then each file of the list.
MessageParts(msg) ==
    (IF msg.text # "" THEN <<[kind |-> "text", text |-> msg.text, file |-> NoFile]>> ELSE <<>>)
    \o [i \in 1..Len(msg.files) |-> [kind |-> "file", text |-> None, file |-> msg.files[i]]]

\* What a safe part adds to prompt_parts.
PromptPart(part, mime_type) ==
    IF part.kind = "text" THEN [kind |-> "str", text |-> part.text, media_type |-> NoMime]
    ELSE [kind |-> "BinaryContent", text |-> part.file.path, media_type |-> mime_type]

StartTurn ==
    /\ pc = "idle"
    /\ Len(past_messages) < 2 * MaxHistory
    /\ \E msg \in Messages :
        /\ message' = msg
        /\ parts' = MessageParts(msg)
    /\ pc' = "moderating"
    /\ idx' = 1
    /\ prompt_parts' = <<[kind |-> "str", text |-> Preamble, media_type |-> NoMime]>>
    /\ safety_message' = ""
    /\ mod_log' = <<>>
    /\ gate' = NoGate
    /\ persona_calls' = 0
    /\ outcome' = NoOutcome
    /\ UNCHANGED <<backend, srv, past_messages, pair, ev, ui, launcher>>

\* Variant: a flagged file is added to the prompt like a safe one.
AfterCheck_FlaggedFilePasses(part, r) ==
    IF ~r.ok
    THEN /\ pc' = "done"
         /\ outcome' = [NoOutcome EXCEPT !.kind = "raised",
                            !.error = IF part.kind = "file" /\ r.error.type = "ValueError"
                                      THEN [r.error EXCEPT !.type = "gr.Error"]
                                      ELSE r.error]
         /\ UNCHANGED <<idx, prompt_parts, safety_message>>
    ELSE IF ~r.is_safe /\ part.kind = "text"
    THEN /\ pc' = "done"
         /\ safety_message' = r.feedback
         /\ outcome' = [NoOutcome EXCEPT !.kind = "returned", !.response = BlockedResponse,
                            !.messages = past_messages,
                            !.feedback = WarningSign \o "Content flagged: " \o r.feedback]
         /\ UNCHANGED <<idx, prompt_parts>>
    ELSE /\ safety_message' = r.feedback
         /\ prompt_parts' = Append(prompt_parts, PromptPart(part, r.mime_type))
         /\ idx' = idx + 1
         /\ UNCHANGED <<pc, outcome>>

\* The body of the loop for one part, after check_content_safety answered r.
\* Variant: a blocked turn returns an empty history.
AfterCheck_BlockedClearsHistory(part, r) ==
    IF ~r.ok
    THEN /\ pc' = "done"
         /\ outcome' = [NoOutcome EXCEPT !.kind = "raised",
                            !.error = IF part.kind = "file" /\ r.error.type = "ValueError"
                                      THEN [r.error EXCEPT !.type = "gr.Error"]
                                      ELSE r.error]
         /\ UNCHANGED <<idx, prompt_parts, safety_message>>
    ELSE IF ~r.is_safe
    THEN /\ pc' = "done"
         /\ safety_message' = r.feedback
         /\ outcome' = [NoOutcome EXCEPT !.kind = "returned", !.response = BlockedResponse,
                            !.messages = <<>>,
                            !.feedback = WarningSign \o "Content flagged: " \o r.feedback]
         /\ UNCHANGED <<idx, prompt_parts>>
    ELSE /\ safety_message' = r.feedback
         /\ prompt_parts' = Append(prompt_parts, PromptPart(part, r.mime_type))
         /\ idx' = idx + 1
         /\ UNCHANGED <<pc, outcome>>

\* Variant: a flagged part is left out of the prompt and the loop goes on.
AfterCheck_FlaggedContinues(part, r) ==
    IF ~r.ok
    THEN /\ pc' = "done"
         /\ outcome' = [NoOutcome EXCEPT !.kind = "raised",
                            !.error = IF part.kind = "file" /\ r.error.type = "ValueError"
                                      THEN [r.error EXCEPT !.type = "gr.Error"]
                                      ELSE r.error]
         /\ UNCHANGED <<idx, prompt_parts, safety_message>>
    ELSE IF ~r.is_safe
    THEN /\ safety_message' = r.feedback
         /\ idx' = idx + 1
         /\ UNCHANGED <<pc, outcome, prompt_parts>>
    ELSE /\ safety_message' = r.feedback
         /\ prompt_parts' = Append(prompt_parts, PromptPart(part, r.mime_type))
         /\ idx' = idx + 1
         /\ UNCHANGED <<pc, outcome>>

\* Variant: the feedback of the first safe part is kept for the whole turn.
AfterCheck_KeepsFirstFeedback(part, r) ==
    IF ~r.ok
    THEN /\ pc' = "done"
         /\ outcome' = [NoOutcome EXCEPT !.kind = "raised",
                            !.error = IF part.kind = "file" /\ r.error.type = "ValueError"
                                      THEN [r.error EXCEPT !.type = "gr.Error"]
                                      ELSE r.error]
         /\ UNCHANGED <<idx, prompt_parts, safety_message>>
    ELSE IF ~r.is_safe
    THEN /\ pc' = "done"
         /\ safety_message' = r.feedback
         /\ outcome' = [NoOutcome EXCEPT !.kind = "returned", !.response = BlockedResponse,
                            !.messages = past_messages,
                            !.feedback = WarningSign \o "Content flagged: " \o r.feedback]
         /\ UNCHANGED <<idx, prompt_parts>>
    ELSE /\ safety_message' = IF safety_message = "" THEN r.feedback ELSE safety_message
         /\ prompt_parts' = Append(prompt_parts, PromptPart(part, r.mime_type))
         /\ idx' = idx + 1
         /\ UNCHANGED <<pc, outcome>>

AfterCheck(part, r) ==
    IF ~r.ok
    THEN /\ pc' = "done"
         /\ outcome' = [NoOutcome EXCEPT !.kind = "raised",
                            !.error = IF part.kind = "file" /\ r.error.type = "ValueError"
                                      THEN [r.error EXCEPT !.type = "gr.Error"]
                                      ELSE r.error]
         /\ UNCHANGED <<idx, prompt_parts, safety_message>>
    ELSE IF ~r.is_safe
    THEN /\ pc' = "done"
         /\ safety_message' = r.feedback
         /\ outcome' = [NoOutcome EXCEPT !.kind = "returned", !.response = BlockedResponse,
                            !.messages = past_messages,
                            !.feedback = WarningSign \o "Content flagged: " \o r.feedback]
         /\ UNCHANGED <<idx, prompt_parts>>
    ELSE /\ safety_message' = r.feedback
         /\ prompt_parts' = Append(prompt_parts, PromptPart(part, r.mime_type))
         /\ idx' = idx + 1
         /\ UNCHANGED <<pc, outcome>>

Verdict(r) == IF ~r.ok THEN "failed" ELSE IF r.is_safe THEN "safe" ELSE "unsafe"

\* One iteration of the moderation loop: check_content_safety on the next
\* part (its POST answered by the backend) and the branch on the result.
ModeratePart ==
    /\ pc = "moderating"
    /\ idx <= Len(parts)
    /\ LET part == parts[idx]
           req == PlannedRequest(part.text, part.file)
       IN \E t \in Answers(req) :
            LET r == check_content_safety(part.text, part.file, ResponseOf(t))
            IN /\ gate' = [called |-> TRUE, part |-> part, response |-> ResponseOf(t), r |-> r]
               /\ mod_log' = mod_log \o [i \in 1..Len(r.posts) |->
                                            [part |-> part, request |-> r.posts[i],
                                             verdict |-> Verdict(r)]]
               /\ srv' = IF backend = "app" /\ r.posts # <<>> THEN t ELSE srv
               /\ AfterCheck(part, r)
    /\ UNCHANGED <<backend, message, parts, past_messages, persona_calls, pair, ev, ui, launcher>>

PersonaOutputs == {"My ACME anvil arrived broken!"}
PersonaRuns == {[ok |-> FALSE]} \cup {[ok |-> TRUE, output |-> o] : o \in PersonaOutputs}

\* result.all_messages(): the history handed in, then the new request and
\* the model's response.
all_messages(history, prompt, output) ==
    history \o <<[role |-> "user", parts |-> Len(prompt)], [role |-> "model", parts |-> 1]>>

\* After the loop: the prompt goes to customer_agent.run.
CallPersona ==
    /\ pc = "moderating"
    /\ idx > Len(parts)
    /\ pc' = "done"
    /\ IF prompt_parts = <<>>
       THEN /\ outcome' = [NoOutcome EXCEPT !.kind = "raised",
                              !.error = [type |-> "gr.Error",
                                         msg |-> "Please provide a message or at least one file.",
                                         arg |-> ""]]
            /\ UNCHANGED <<persona_calls, past_messages>>
       ELSE \E run \in PersonaRuns :
            /\ persona_calls' = persona_calls + 1
            /\ IF run.ok
               THEN /\ outcome' = [NoOutcome EXCEPT !.kind = "returned", !.response = run.output,
                                      !.messages = all_messages(past_messages, prompt_parts, run.output),
                                      !.feedback = safety_message]
                    /\ past_messages' = all_messages(past_messages, prompt_parts, run.output)
               ELSE /\ outcome' = [NoOutcome EXCEPT !.kind = "raised",
                                      !.error = [type |-> "gr.Error",
                                                 msg |-> "I'm sorry, but I encountered an error while processing your request. Please try again or contact ACME support if the issue persists.",
                                                 arg |-> ""]]
                    /\ UNCHANGED past_messages
    /\ UNCHANGED <<backend, srv, message, parts, idx, prompt_parts, safety_message, mod_log,
                   gate, pair, ev, ui, launcher>>

\* The turn's return value (or error) has gone to the UI: its locals are
\* gone, the gr.State keeps past_messages.
EndTurn ==
    /\ pc = "done"
    /\ pc' = "idle"
    /\ message' = [text |-> "", files |-> <<>>]
    /\ parts' = <<>>
    /\ idx' = 1
    /\ prompt_parts' = <<>>
    /\ safety_message' = ""
    /\ mod_log' = <<>>
    /\ gate' = NoGate
    /\ persona_calls' = 0
    /\ outcome' = NoOutcome
    /\ UNCHANGED <<backend, srv, past_messages, pair, ev, ui, launcher>>

NoPair == [done |-> FALSE]
NoEval == [done |-> FALSE]

NoUi == [built |-> FALSE]
NoLauncher == [started |-> FALSE]

\* Neither the interface nor the launcher is part of the run.
InitOffstage == ui = NoUi /\ launcher = NoLauncher

InitChat ==
    /\ srv = NoTrace
    /\ pc = "idle"
    /\ message = [text |-> "", files |-> <<>>]
    /\ parts = <<>>
    /\ idx = 1
    /\ prompt_parts = <<>>
    /\ safety_message = ""
    /\ past_messages = <<>>
    /\ mod_log = <<>>
    /\ gate = NoGate
    /\ persona_calls = 0
    /\ outcome = NoOutcome

\* The chat demo in front of this repository's API.
Init == backend = "app" /\ InitChat /\ InitOffstage /\ pair = NoPair /\ ev = NoEval

\* The chat demo in front of an arbitrary moderation service.
InitStub == backend = "stub" /\ InitChat /\ InitOffstage /\ pair = NoPair /\ ev = NoEval

\* Any HTTP client sends one request to the API.
HttpRequest ==
    /\ \E req \in Requests : \E run \in RunsFor(req.path) : srv' = HandleRequest(req, run)
    /\ UNCHANGED <<backend, pair, ev, ui, launcher>>
    /\ UNCHANGED chatVars

\* The API on its own, serving arbitrary clients.
NextApi == HttpRequest
SpecApi == Init /\ [][NextApi]_vars

Next == StartTurn \/ ModeratePart \/ CallPersona \/ EndTurn

Spec == Init /\ [][Next]_vars
SpecStub == InitStub /\ [][Next]_vars

(***************************************************************************)
(* The gate applied side by side to two verdicts of one category that      *)
(* agree on the category's unsafe flags and differ in everything else.     *)
(***************************************************************************)
\* A payload of the given category: a text, or a file of that MIME type
\* within the size limit.
CategoryPayload(content_type) ==
    IF content_type = "text" THEN [text |-> "hello", file |-> NoFile]
    ELSE [text |-> None,
          file |-> [path |-> "upload",
                    mime |-> CHOOSE m \in Mimes : m[1] = content_type,
                    size |-> MAX_FILE_SIZE_BYTES]]

OkResponse(body) == [status |-> 200, ok |-> TRUE, body |-> body, text |-> ""]

\* Verdicts with a rationale and any subset of the other keys.
Verdicts == UNION {DictsOver(K \cup {"rationale"}) : K \in SUBSET (JsonKeys \ {"rationale"})}

\* The verdicts that agree with v on the listed flags: same presence, same value.
AgreeingWith(v, flags) ==
    {w \in Verdicts : \A f \in flags : /\ (f \in DOMAIN v) = (f \in DOMAIN w)
                                       /\ f \in DOMAIN v => v[f] = w[f]}

InitPair ==
    /\ backend = "stub"
    /\ InitChat /\ InitOffstage
    /\ ev = NoEval
    /\ \E c \in Categories : \E a \in Verdicts :
          \E b \in AgreeingWith(a, Range(MODERATION_CONFIG(c).unsafe_flags)) :
             pair = [done |-> FALSE, content_type |-> c, a |-> a, b |-> b]

\* check_content_safety on the same payload, once with each verdict as the
\* moderation service's answer.
CheckPair ==
    /\ ~pair.done
    /\ "a" \in DOMAIN pair
    /\ LET payload == CategoryPayload(pair.content_type)
       IN pair' = [done |-> TRUE, content_type |-> pair.content_type, a |-> pair.a, b |-> pair.b,
                   ra |-> check_content_safety(payload.text, payload.file, OkResponse(pair.a)),
                   rb |-> check_content_safety(payload.text, payload.file, OkResponse(pair.b))]
    /\ UNCHANGED <<backend, srv, ev, ui, launcher>>
    /\ UNCHANGED chatVars

NextPair == CheckPair
SpecPair == InitPair /\ [][NextPair]_vars

(***************************************************************************)
(* check_content_safety called directly, with any combination of its two   *)
(* keyword arguments, the moderation service answering anything.           *)
(***************************************************************************)
InitGate ==
    /\ backend = "stub"
    /\ InitChat /\ InitOffstage
    /\ ev = NoEval
    /\ \E text \in Texts \cup {None} : \E media \in FileUniverse \cup {NoFile} :
       \E t \in StubAnswers :
          pair = [done |-> FALSE, text |-> text, media |-> media, response |-> ResponseOf(t)]

CallGate ==
    /\ ~pair.done
    /\ "media" \in DOMAIN pair
    /\ pair' = [pair EXCEPT !.done = TRUE] @@
               [r |-> check_content_safety(pair.text, pair.media, pair.response)]
    /\ UNCHANGED <<backend, srv, ev, ui, launcher>>
    /\ UNCHANGED chatVars

NextGate == CallGate
SpecGate == InitGate /\ [][NextGate]_vars

(***************************************************************************)
(* evals/utils.py: create_repeated_cases                                   *)
(***************************************************************************)
Digit(d) == CASE d = 0 -> "0" [] d = 1 -> "1" [] d = 2 -> "2" [] d = 3 -> "3" [] d = 4 -> "4"
              [] d = 5 -> "5" [] d = 6 -> "6" [] d = 7 -> "7" [] d = 8 -> "8" [] d = 9 -> "9"

\* str(n) for an integer n.
RECURSIVE Decimal(_)
Decimal(n) ==
    IF n < 0 THEN "-" \o Decimal(0 - n)
    ELSE IF n < 10 THEN Digit(n)
    ELSE Decimal(n \div 10) \o Digit(n % 10)

\* Case metadata: None, or a dict.
NoMetadata == [is_none |-> TRUE, dict |-> <<>>]
Metadata(d) == [is_none |-> FALSE, dict |-> d]

\* base_case.metadata or {}
OrEmpty(metadata) == IF metadata.is_none \/ DOMAIN metadata.dict = {} THEN <<>> ELSE metadata.dict

\* Variant: the base metadata is spread after the two new keys, so its
\* own run_number and base_case win.
RepeatedCase_BaseMetadataWins(base_case, run_number) ==
    [name |-> base_case.name \o "_run_" \o Decimal(run_number),
     inputs |-> base_case.inputs,
     expected_output |-> base_case.expected_output,
     metadata |-> Metadata(
        LET old == OrEmpty(base_case.metadata)
        IN [k \in DOMAIN old \cup {"run_number", "base_case"} |->
                IF k \in DOMAIN old THEN old[k]
                ELSE IF k = "run_number" THEN run_number
                ELSE base_case.name]),
     evaluators |-> base_case.evaluators]

\* Variant: the name is f"{base_case.name}_run", without the run number.
RepeatedCase_NameWithoutRunNumber(base_case, run_number) ==
    [name |-> base_case.name \o "_run",
     inputs |-> base_case.inputs,
     expected_output |-> base_case.expected_output,
     metadata |-> Metadata(
        LET old == OrEmpty(base_case.metadata)
        IN [k \in DOMAIN old \cup {"run_number", "base_case"} |->
                IF k = "run_number" THEN run_number
                ELSE IF k = "base_case" THEN base_case.name
                ELSE old[k]]),
     evaluators |-> base_case.evaluators]

\* The Case built in the inner loop.
RepeatedCase(base_case, run_number) ==
    [name |-> base_case.name \o "_run_" \o Decimal(run_number),
     inputs |-> base_case.inputs,
     expected_output |-> base_case.expected_output,
     metadata |-> Metadata(
        LET old == OrEmpty(base_case.metadata)
        IN [k \in DOMAIN old \cup {"run_number", "base_case"} |->
                IF k = "run_number" THEN run_number
                ELSE IF k = "base_case" THEN base_case.name
                ELSE old[k]]),
     evaluators |-> base_case.evaluators]

\* The inner loop: for run_number in range(first, last + 1).
RECURSIVE RunsOf(_, _, _)
RunsOf(base_case, first, last) ==
    IF first > last THEN <<>>
    ELSE <<RepeatedCase(base_case, first)>> \o RunsOf(base_case, first + 1, last)

\* The outer loop over base_cases, running the inner loop from first to last.
RECURSIVE RepeatAll(_, _, _)
RepeatAll(base_cases, first, last) ==
    IF base_cases = <<>> THEN <<>>
    ELSE RunsOf(Head(base_cases), first, last) \o RepeatAll(Tail(base_cases), first, last)

NoRepeats == [is_none |-> TRUE, value |-> 0]
Repeats(n) == [is_none |-> FALSE, value |-> n]

\* Variant: without the "if num_repeats <= 1: return base_cases" guard.
create_repeated_cases_NoGuard(base_cases, num_repeats, EVAL_NUM_REPEATS) ==
    LET n == IF num_repeats.is_none THEN EVAL_NUM_REPEATS ELSE num_repeats.value
    IN RepeatAll(base_cases, 1, n)

\* Variant: the inner loop is range(num_repeats), so runs are numbered from 0.
create_repeated_cases_FromZero(base_cases, num_repeats, EVAL_NUM_REPEATS) ==
    LET n == IF num_repeats.is_none THEN EVAL_NUM_REPEATS ELSE num_repeats.value
    IN IF n <= 1 THEN base_cases ELSE RepeatAll(base_cases, 0, n - 1)

create_repeated_cases(base_cases, num_repeats, EVAL_NUM_REPEATS) ==
    LET n == IF num_repeats.is_none THEN EVAL_NUM_REPEATS ELSE num_repeats.value
    IN IF n <= 1 THEN base_cases ELSE RepeatAll(base_cases, 1, n)

\* The base cases a dataset is built from.
CaseNames == {"pii", "pii_run_1"}
CaseMetadata == {NoMetadata, Metadata([category |-> "text"]),
                 Metadata([run_number |-> 7, base_case |-> "older"])}
BaseCases ==
    [name : CaseNames, inputs : {"input"}, expected_output : {"expected"},
     metadata : CaseMetadata, evaluators : {<<"HasRationale">>}]

InitEval ==
    /\ backend = "app"
    /\ InitChat /\ InitOffstage
    /\ pair = NoPair
    /\ \E cases \in SeqsUpTo(BaseCases, MaxCases) :
       \E n \in {NoRepeats} \cup {Repeats(k) : k \in (0 - 1)..MaxRepeats} :
       \E default \in (0 - 1)..MaxRepeats :
          ev = [done |-> FALSE, base_cases |-> cases, num_repeats |-> n,
                EVAL_NUM_REPEATS |-> default]

\* A test_cases module builds its dataset: create_repeated_cases(cases).
CreateRepeatedCases ==
    /\ ~ev.done
    /\ "base_cases" \in DOMAIN ev
    /\ ev' = [done |-> TRUE, base_cases |-> ev.base_cases, num_repeats |-> ev.num_repeats,
              EVAL_NUM_REPEATS |-> ev.EVAL_NUM_REPEATS,
              out |-> create_repeated_cases(ev.base_cases, ev.num_repeats, ev.EVAL_NUM_REPEATS)]
    /\ UNCHANGED <<backend, srv, pair, ui, launcher>>
    /\ UNCHANGED chatVars

NextEval == CreateRepeatedCases
SpecEval == InitEval /\ [][NextEval]_vars

(***************************************************************************)
(* types/moderation_result.py as tests/test_moderation_result.py uses it   *)
(* (a result class called with keyword arguments) and                      *)
(* evals/common_evaluators.py (HasRationale on the instance).              *)
(***************************************************************************)
ResultClasses ==
    {"ModerationResult", "TextModerationResult", "ImageModerationResult",
     "VideoModerationResult", "AudioModerationResult"}

RationaleArgs == {"", "Test rationale"}
TranscriptionArgs == {"", "Test"}

\* Keyword arguments: any of the field names, each with a value of its type.
Kwargs ==
    UNION { { [k \in K |-> IF k = "rationale" THEN r
                           ELSE IF k = "transcription" THEN t
                           ELSE b[k]] :
                r \in RationaleArgs, t \in TranscriptionArgs, b \in [K \cap Flags -> BOOLEAN] } :
            K \in SUBSET (Flags \cup {"rationale", "transcription"}) }

ValidationError(missing) ==
    [type |-> "ValidationError", msg |-> "Field required", arg |-> "", missing |-> missing]

\* Variant: only rationale is required; a flag or transcription that is not
\* given is left out of the instance.
BaseModel_FlagsOptional(cls, data) ==
    IF "rationale" \notin DOMAIN data
    THEN [ok |-> FALSE, error |-> ValidationError({"rationale"})]
    ELSE [ok |-> TRUE,
          value |-> [class |-> cls, fields |-> Restrict(data, ClassFields(cls) \cap DOMAIN data)]]

\* Variant: flags are declared with default False and transcription with
\* default "".
BaseModel_WithDefaults(cls, data) ==
    IF "rationale" \notin DOMAIN data
    THEN [ok |-> FALSE, error |-> ValidationError({"rationale"})]
    ELSE [ok |-> TRUE,
          value |-> [class |-> cls,
                     fields |-> [k \in ClassFields(cls) |->
                                    IF k \in DOMAIN data THEN data[k]
                                    ELSE IF k = "transcription" THEN "" ELSE FALSE]]]

\* Variant: rationale is declared with min_length=1.
BaseModel_NonEmptyRationale(cls, data) ==
    IF ClassFields(cls) \ DOMAIN data # {}
    THEN [ok |-> FALSE, error |-> ValidationError(ClassFields(cls) \ DOMAIN data)]
    ELSE IF data["rationale"] = ""
    THEN [ok |-> FALSE, error |-> [ValidationError({}) EXCEPT !.msg = "String should have at least 1 character"]]
    ELSE [ok |-> TRUE, value |-> [class |-> cls, fields |-> Restrict(data, ClassFields(cls))]]

\* cls(**data) for a result class: each field is declared as
\* Field(description=...) with no default, so each must be given; keyword
\* arguments that are not fields of the class are ignored.
BaseModel(cls, data) ==
    IF ClassFields(cls) \ DOMAIN data # {}
    THEN [ok |-> FALSE, error |-> ValidationError(ClassFields(cls) \ DOMAIN data)]
    ELSE [ok |-> TRUE, value |-> [class |-> cls, fields |-> Restrict(data, ClassFields(cls))]]

\* HasRationale.evaluate on a task output.
HasRationale(output) == Len(output.fields["rationale"]) > 0

NoInstance == [ok |-> FALSE, error |-> ValidationError({})]

InitSchema ==
    /\ backend = "app"
    /\ InitChat /\ InitOffstage
    /\ pair = NoPair
    /\ \E cls \in ResultClasses : \E data \in Kwargs :
          ev = [done |-> FALSE, step |-> "args", cls |-> cls, data |-> data,
                built |-> NoInstance, passed |-> FALSE]

\* The class is called with the keyword arguments.
Construct ==
    /\ "cls" \in DOMAIN ev
    /\ ev.step = "args"
    /\ ev' = [ev EXCEPT !.step = "built", !.built = BaseModel(ev.cls, ev.data)]
    /\ UNCHANGED <<backend, srv, pair, ui, launcher>>
    /\ UNCHANGED chatVars

\* The instance is handed to the HasRationale evaluator.
Evaluate ==
    /\ "cls" \in DOMAIN ev
    /\ ev.step = "built"
    /\ ev.built.ok
    /\ ev' = [ev EXCEPT !.step = "evaluated", !.passed = HasRationale(ev.built.value)]
    /\ UNCHANGED <<backend, srv, pair, ui, launcher>>
    /\ UNCHANGED chatVars

NextSchema == Construct \/ Evaluate
SpecSchema == InitSchema /\ [][NextSchema]_vars

(***************************************************************************)
(* evals/*/test_cases.py: main() evaluates the dataset with                *)
(* retry_task=retry_config and retry_evaluators=retry_config, where        *)
(* retry_config stops after 10 attempts.  An attempt is made, and if it    *)
(* fails and the stop condition (attempt number >= stop_after_attempt)     *)
(* does not hold, it is made again; otherwise the failure is the result.   *)
(* The process running is either this harness or the live demo.            *)
(***************************************************************************)
\* Variant: stop=tenacity.stop_after_attempt(11).
retry_config_Eleven == [stop_after_attempt |-> 11]

retry_config == [stop_after_attempt |-> 10]

\* A case about to be evaluated: no attempt made yet.
CaseRun ==
    [done |-> FALSE, harness |-> TRUE, phase |-> "task", task_attempts |-> 0,
     evaluator_attempts |-> 0]

InitRetry ==
    /\ backend = "app"
    /\ InitChat /\ InitOffstage
    /\ pair = NoPair
    /\ ev \in {NoEval, CaseRun}

\* One attempt of the task (run_*_moderation) under retry_task.
RetryTask ==
    /\ "harness" \in DOMAIN ev
    /\ ev.phase = "task"
    /\ \E succeeded \in BOOLEAN :
          ev' = [ev EXCEPT !.task_attempts = @ + 1,
                           !.phase = IF succeeded THEN "evaluators"
                                     ELSE IF ev.task_attempts + 1 >= retry_config.stop_after_attempt
                                     THEN "failed"
                                     ELSE "task"]
    /\ UNCHANGED <<backend, srv, pair, ui, launcher>>
    /\ UNCHANGED chatVars

\* One attempt of an evaluator on the task's output under retry_evaluators.
RetryEvaluators ==
    /\ "harness" \in DOMAIN ev
    /\ ev.phase = "evaluators"
    /\ \E succeeded \in BOOLEAN :
          ev' = [ev EXCEPT !.evaluator_attempts = @ + 1,
                           !.phase = IF succeeded THEN "reported"
                                     ELSE IF ev.evaluator_attempts + 1 >= retry_config.stop_after_attempt
                                     THEN "failed"
                                     ELSE "evaluators"]
    /\ UNCHANGED <<backend, srv, pair, ui, launcher>>
    /\ UNCHANGED chatVars

\* The live demo: the chat in front of the API, no harness in the process.
LiveServing == ev = NoEval /\ Next

NextRetry == RetryTask \/ RetryEvaluators \/ LiveServing
SpecRetry ==
    InitRetry /\ [][NextRetry]_vars /\ WF_vars(RetryTask) /\ WF_vars(RetryEvaluators)

(***************************************************************************)
(* gradio_app.py: create_chat_interface builds the interface once per      *)
(* server process; every browser session that opens it gets its own        *)
(* gr.State and fires the event handlers the interface was built with.     *)
(***************************************************************************)
Users == 1..MaxUsers

\* ChatSessionWithTracing(): a new uuid4 (the n-th object gets id n) and a
\* started conversation span.
ChatSessionWithTracing(n) == [session_id |-> n, span_ended |-> FALSE]

InitUi ==
    /\ backend = "app"
    /\ InitChat
    /\ pair = NoPair
    /\ ev = NoEval
    /\ ui = NoUi
    /\ launcher = NoLauncher

\* main(): demo = create_chat_interface().  One chat_session is made, and
\* the ChatInterface fn and the end button's fn are its bound methods.
create_chat_interface ==
    /\ ~ui.built
    /\ ui' = [built |-> TRUE,
              objects |-> <<ChatSessionWithTracing(1)>>,
              chat_fn |-> 1,
              end_fn |-> 1,
              page |-> [u \in Users |-> FALSE],
              turns |-> [u \in Users |-> <<>>],
              clicks |-> {}]
    /\ UNCHANGED <<backend, srv, pair, ev, launcher>>
    /\ UNCHANGED chatVars

\* A browser opens the page: its own copy of past_messages_state.
LoadPage(u) ==
    /\ ui.built
    /\ ~ui.page[u]
    /\ ui' = [ui EXCEPT !.page[u] = TRUE]
    /\ UNCHANGED <<backend, srv, pair, ev, launcher>>
    /\ UNCHANGED chatVars

\* A user submits a message: chat_with_gemini of the handler's object opens
\* a chat_turn span under that object's conversation span.
SubmitMessage(u) ==
    /\ ui.built
    /\ ui.page[u]
    /\ Len(ui.turns[u]) < MaxTurns
    /\ ui' = [ui EXCEPT !.turns[u] =
                 Append(@, [session_id |-> ui.objects[ui.chat_fn].session_id,
                            span_ended |-> ui.objects[ui.chat_fn].span_ended])]
    /\ UNCHANGED <<backend, srv, pair, ev, launcher>>
    /\ UNCHANGED chatVars

\* A user clicks End Conversation: end_conversation of the handler's object
\* ends its conversation span.
end_conversation(u) ==
    /\ ui.built
    /\ ui.page[u]
    /\ ui' = [ui EXCEPT !.objects[ui.end_fn].span_ended = TRUE, !.clicks = @ \cup {u}]
    /\ UNCHANGED <<backend, srv, pair, ev, launcher>>
    /\ UNCHANGED chatVars

NextUi ==
    \/ create_chat_interface
    \/ \E u \in Users : LoadPage(u)
    \/ \E u \in Users : SubmitMessage(u)
    \/ \E u \in Users : end_conversation(u)
SpecUi == InitUi /\ [][NextUi]_vars

(***************************************************************************)
(* app.py: main() launches Phoenix, installs signal_handler for SIGINT,    *)
(* starts the two children and waits for them.  A Python signal handler    *)
(* runs in the main thread between two steps of main; Popen(...) first     *)
(* starts the child and then its result is assigned to the local name.     *)
(***************************************************************************)
Children == {"api", "chat"}

InitLauncher ==
    /\ backend = "app"
    /\ InitChat
    /\ pair = NoPair
    /\ ev = NoEval
    /\ ui = NoUi
    /\ launcher = [started |-> TRUE, pc |-> "launch_app", installed |-> FALSE, handler |-> 0,
                   signals |-> 0, exit |-> "none",
                   bound |-> [c \in Children |-> FALSE],
                   child |-> [c \in Children |-> "not started"]]

MainAt(label) == launcher.started /\ launcher.handler = 0 /\ launcher.pc = label

Exited(how) == [launcher EXCEPT !.pc = "exited", !.handler = 0, !.exit = how]

\* session = px.launch_app(port=6006); if not session: raise RuntimeError
LaunchPhoenix ==
    /\ MainAt("launch_app")
    /\ \E session \in BOOLEAN :
          launcher' = IF session THEN [launcher EXCEPT !.pc = "signal"] ELSE Exited("RuntimeError")
    /\ UNCHANGED <<backend, srv, pair, ev, ui>>
    /\ UNCHANGED chatVars

\* signal.signal(signal.SIGINT, signal_handler)
InstallHandler ==
    /\ MainAt("signal")
    /\ launcher' = [launcher EXCEPT !.installed = TRUE, !.pc = "popen_api"]
    /\ UNCHANGED <<backend, srv, pair, ev, ui>>
    /\ UNCHANGED chatVars

\* subprocess.Popen([...]): the child is running, the name not yet assigned;
\* or the command cannot be started and Popen raises, which main lets through.
Popen(c) ==
    /\ MainAt("popen_" \o c)
    /\ \E found \in BOOLEAN :
          launcher' = IF found
                      THEN [launcher EXCEPT !.child[c] = "running", !.pc = "assign_" \o c]
                      ELSE Exited("FileNotFoundError")
    /\ UNCHANGED <<backend, srv, pair, ev, ui>>
    /\ UNCHANGED chatVars

\* api_process = ... / chat_process = ...
Assign(c) ==
    /\ MainAt("assign_" \o c)
    /\ launcher' = [launcher EXCEPT !.bound[c] = TRUE,
                                    !.pc = IF c = "api" THEN "popen_chat" ELSE "wait_api"]
    /\ UNCHANGED <<backend, srv, pair, ev, ui>>
    /\ UNCHANGED chatVars

\* api_process.wait() / chat_process.wait() return once the child is gone;
\* after the second, main returns.
Wait(c) ==
    /\ MainAt("wait_" \o c)
    /\ launcher.child[c] # "running"
    /\ launcher' = IF c = "api" THEN [launcher EXCEPT !.pc = "wait_chat"] ELSE Exited("returned")
    /\ UNCHANGED <<backend, srv, pair, ev, ui>>
    /\ UNCHANGED chatVars

\* A child ends on its own.
ChildExits(c) ==
    /\ launcher.started
    /\ launcher.child[c] = "running"
    /\ launcher' = [launcher EXCEPT !.child[c] = "exited"]
    /\ UNCHANGED <<backend, srv, pair, ev, ui>>
    /\ UNCHANGED chatVars

\* SIGINT reaches the launcher while the handler is installed: the handler
\* starts at its first statement.  One arriving while the handler runs starts
\* it again on top of the first, which is never resumed, since every run of
\* the handler ends in an exception.
Sigint ==
    /\ launcher.started
    /\ launcher.installed
    /\ launcher.pc # "exited"
    /\ launcher.signals < MaxSignals
    /\ launcher' = [launcher EXCEPT !.handler = 1, !.signals = @ + 1]
    /\ UNCHANGED <<backend, srv, pair, ev, ui>>
    /\ UNCHANGED chatVars

\* X.terminate() in the handler: NameError when the name is not assigned
\* yet, else the child is told to terminate (no effect on one already gone).
Terminate(c, next) ==
    IF ~launcher.bound[c] THEN Exited("NameError")
    ELSE [launcher EXCEPT !.handler = next,
                          !.child[c] = IF @ = "running" THEN "terminated" ELSE @]

\* signal_handler, one statement at a time: api_process.terminate(),
\* chat_process.terminate(), sys.exit(0).
signal_handler ==
    /\ launcher.started
    /\ launcher.handler > 0
    /\ launcher' = CASE launcher.handler = 1 -> Terminate("api", 2)
                     [] launcher.handler = 2 -> Terminate("chat", 3)
                     [] launcher.handler = 3 -> Exited("sys.exit(0)")
    /\ UNCHANGED <<backend, srv, pair, ev, ui>>
    /\ UNCHANGED chatVars

NextLauncher ==
    \/ LaunchPhoenix
    \/ InstallHandler
    \/ \E c \in Children : Popen(c)
    \/ \E c \in Children : Assign(c)
    \/ \E c \in Children : Wait(c)
    \/ \E c \in Children : ChildExits(c)
    \/ Sigint
    \/ signal_handler
SpecLauncher == InitLauncher /\ [][NextLauncher]_vars

(***************************************************************************)
(* Properties                                                              *)
(***************************************************************************)
\* The flags that make content of a category unsafe.
DesignatedFlags(category) ==
    IF category \in {"text", "audio"}
    THEN {"is_unfriendly", "is_unprofessional", "contains_pii"}
    ELSE {"contains_pii", "is_disturbing", "is_low_quality"}

\* The category of a part of a chat message: text, or the type of the
\* file's sniffed MIME.
PartCategory(part) ==
    IF part.kind = "text" THEN "text"
    ELSE IF part.file.mime = NoMime THEN "unknown"
    ELSE part.file.mime[1]

\* The verdict check_content_safety read carries every designated flag.
GateHasVerdict ==
    /\ gate.called
    /\ gate.r.content_type \in Categories
    /\ DesignatedFlags(gate.r.content_type) \subseteq DOMAIN gate.r.result

\* C1: for every category and every verdict that carries all of the
\* category's designated flags, check_content_safety returns is_safe = TRUE
\* exactly when none of the designated flags is true; one true designated
\* flag is enough for is_safe = FALSE.
C1_GateIsOrOverDesignatedFlags ==
    GateHasVerdict =>
        /\ gate.r.ok
        /\ gate.r.is_safe <=>
              \A f \in DesignatedFlags(gate.r.content_type) : ~gate.r.result[f]

\* C1 witness: an audio verdict whose only true flag is the last of the
\* loop's list was judged unsafe.
C1_Witness ==
    /\ GateHasVerdict
    /\ gate.r.content_type = "audio"
    /\ gate.r.result["contains_pii"]
    /\ ~gate.r.result["is_unfriendly"]
    /\ ~gate.r.result["is_unprofessional"]
    /\ ~gate.r.is_safe

\* A part of the message was posted to moderation and judged safe.
ModeratedSafe(part) ==
    \E i \in DOMAIN mod_log :
        /\ mod_log[i].verdict = "safe"
        /\ IF part.kind = "text"
           THEN mod_log[i].request.path = TextRoute /\ mod_log[i].request.text = part.text
           ELSE mod_log[i].request.path # TextRoute /\ mod_log[i].request.file = part.file

\* C2: in a chat turn the persona model is called only if the non-empty
\* text and every file of the message were sent to moderation and judged
\* safe; if a part was flagged the persona model is not called in that turn.
C2_PersonaOnlyAfterAllSafe ==
    /\ persona_calls > 0 =>
        /\ message.text # "" =>
              ModeratedSafe([kind |-> "text", text |-> message.text, file |-> NoFile])
        /\ \A j \in DOMAIN message.files :
              ModeratedSafe([kind |-> "file", text |-> None, file |-> message.files[j]])
        /\ Len(mod_log) = Len(message.files) + (IF message.text # "" THEN 1 ELSE 0)
    /\ (\E i \in DOMAIN mod_log : mod_log[i].verdict = "unsafe") => persona_calls = 0

\* C2 witness: the persona model was called for a message with a text and a
\* file, both judged safe.
C2_Witness ==
    /\ persona_calls = 1
    /\ message.text # ""
    /\ Len(message.files) >= 1
    /\ Len(mod_log) = 1 + Len(message.files)

AuthFailure == {401, 403}

\* The API ran no moderation logic for the request and returned no verdict.
NoModerationRan ==
    /\ ~srv.sniffed
    /\ srv.calls = <<>>
    /\ srv.returned = "none"
    /\ ~srv.ok
    /\ DOMAIN srv.body = {}

\* C3: on each of the four moderation routes a request whose bearer token
\* is not USER_API_KEY is rejected with an authorization failure (401 for a
\* wrong token) before any moderation logic: no sniffing, no classifier
\* call, no verdict.
C3_BadTokenRejectedBeforeModeration ==
    (srv.req.path \in ModerationRoutes /\ srv.req.credentials # USER_API_KEY) =>
        /\ srv.status \in AuthFailure
        /\ srv.req.credentials \in Tokens => srv.status = 401
        /\ NoModerationRan

\* C3 witness: a sniffable image posted to the image route with a wrong
\* token was answered 401.
C3_Witness ==
    /\ srv.req.path = ImageRoute
    /\ srv.req.credentials \in Tokens \ {USER_API_KEY}
    /\ srv.req.file.mime # NoMime
    /\ srv.status = 401

\* C4 as stated: a request to the health route gets the static OK payload
\* whatever its credentials.
C4_HealthUnauthenticated ==
    srv.req.path = HealthRoute => (srv.status = 200 /\ srv.body = health_check)

\* C4 amended: the health route sits behind the same bearer check as every
\* other route: with USER_API_KEY it returns the static OK payload, with no
\* token or another token it is rejected with an authorization failure and
\* returns no payload.
C4_HealthBehindBearerCheck ==
    srv.req.path = HealthRoute =>
        IF srv.req.credentials = USER_API_KEY
        THEN srv.status = 200 /\ srv.body = health_check
        ELSE srv.status \in AuthFailure /\ ~srv.ok /\ DOMAIN srv.body = {}

\* C4 witness: a health request with a wrong token was answered 401.
C4_Witness ==
    /\ srv.req.path = HealthRoute
    /\ srv.req.credentials \in Tokens \ {USER_API_KEY}
    /\ srv.status = 401

\* The result class each category's classifier is to return.
CategoryVariant(path) ==
    CASE path = TextRoute -> "TextModerationResult"
      [] path = ImageRoute -> "ImageModerationResult"
      [] path = VideoRoute -> "VideoModerationResult"
      [] path = AudioRoute -> "AudioModerationResult"

\* C5: a successful classifier invocation returns the category's own
\* variant: moderate_text a TextModerationResult, moderate_image an
\* ImageModerationResult, moderate_video a VideoModerationResult,
\* moderate_audio an AudioModerationResult.
C5_ClassifierReturnsCategoryVariant ==
    (srv.req.path \in ModerationRoutes /\ srv.returned # "none") =>
        srv.returned = CategoryVariant(srv.req.path)

\* C6: when the moderation endpoint answers with a non-success response,
\* check_content_safety raises with the response text attached and decides
\* nothing, the turn ends with that error and the persona model is not
\* called.
C6_FailedModerationNoVerdict ==
    (gate.called /\ gate.r.posts # <<>> /\ ~gate.response.ok) =>
        /\ ~gate.r.ok
        /\ gate.r.error.type = "RuntimeError"
        /\ gate.r.error.arg = gate.response.text
        /\ pc = "done"
        /\ outcome.kind = "raised"
        /\ outcome.error = gate.r.error
        /\ persona_calls = 0

\* C6 witness: the text of a message was answered 500 and the turn ended
\* with the error.
C6_Witness ==
    /\ gate.called
    /\ gate.part.kind = "text"
    /\ gate.r.posts # <<>>
    /\ gate.response.status = 500
    /\ outcome.kind = "raised"

\* Two verdicts agree on every designated flag of the category.
AgreeOnDesignated(v, w, category) ==
    \A f \in DesignatedFlags(category) :
        /\ (f \in DOMAIN v) = (f \in DOMAIN w)
        /\ f \in DOMAIN v => v[f] = w[f]

\* C7: flags outside a category's designated set never affect the gate:
\* two verdicts of one category that agree on every designated flag are
\* both decided or both not, and get the same is_safe, whatever the values
\* or presence of the other flags; a verdict with no designated flag set is
\* safe whatever its other flags say.
C7_NonDesignatedFlagsIgnored ==
    (pair.done /\ AgreeOnDesignated(pair.a, pair.b, pair.content_type)) =>
        /\ pair.ra.ok = pair.rb.ok
        /\ pair.ra.ok => pair.ra.is_safe = pair.rb.is_safe
        /\ (/\ DesignatedFlags(pair.content_type) \subseteq DOMAIN pair.a
            /\ \A f \in DesignatedFlags(pair.content_type) : ~pair.a[f]) =>
                pair.ra.ok /\ pair.ra.is_safe

\* C7 witness: a text verdict with is_low_quality = TRUE and one without
\* is_low_quality, both with no designated flag set, were both judged safe.
C7_Witness ==
    /\ pair.done
    /\ pair.content_type = "text"
    /\ "is_low_quality" \in DOMAIN pair.a
    /\ pair.a["is_low_quality"]
    /\ "is_low_quality" \notin DOMAIN pair.b
    /\ pair.ra.ok /\ pair.ra.is_safe
    /\ pair.rb.ok /\ pair.rb.is_safe

\* The moderation endpoint of a category.
CategoryEndpoint(category) ==
    CASE category = "text" -> "/api/v1/moderate_text"
      [] category = "image" -> "/api/v1/moderate_image_file"
      [] category = "video" -> "/api/v1/moderate_video_file"
      [] category = "audio" -> "/api/v1/moderate_audio_file"

\* C8: routing is a static table keyed by category: text and audio are
\* gated with {is_unfriendly, is_unprofessional, contains_pii}, image and
\* video with {contains_pii, is_disturbing, is_low_quality}, and a part of
\* category C (text, or the prefix of the file's sniffed MIME type) is
\* posted to C's own endpoint and gated with C's own flags.
C8_RoutedByCategory ==
    /\ \A c \in Categories :
          /\ Range(MODERATION_CONFIG(c).unsafe_flags) = DesignatedFlags(c)
          /\ MODERATION_CONFIG(c).endpoint = CategoryEndpoint(c)
    /\ \A i \in DOMAIN mod_log :
          /\ PartCategory(mod_log[i].part) \in Categories
          /\ mod_log[i].request.path = CategoryEndpoint(PartCategory(mod_log[i].part))
          /\ mod_log[i].request.text = (IF mod_log[i].part.kind = "text" THEN mod_log[i].part.text ELSE "")
          /\ mod_log[i].request.file = mod_log[i].part.file
    /\ (gate.called /\ gate.r.posts # <<>>) =>
          /\ Len(gate.r.posts) = 1
          /\ gate.r.posts[1].path = CategoryEndpoint(PartCategory(gate.part))
          /\ gate.r.flags # <<>> => Range(gate.r.flags) = DesignatedFlags(PartCategory(gate.part))
          /\ gate.r.ok => gate.r.content_type = PartCategory(gate.part) /\ gate.r.flags # <<>>
    /\ (gate.called /\ PartCategory(gate.part) \in Categories
            /\ gate.part.file.size <= MAX_FILE_SIZE_BYTES) => gate.r.posts # <<>>

\* C8 witness: a video file was posted to the video endpoint and judged
\* unsafe on is_low_quality alone.
C8_Witness ==
    /\ gate.called
    /\ PartCategory(gate.part) = "video"
    /\ gate.r.ok
    /\ gate.r.posts[1].path = "/api/v1/moderate_video_file"
    /\ gate.r.result["is_low_quality"]
    /\ ~gate.r.result["contains_pii"]
    /\ ~gate.r.result["is_disturbing"]
    /\ ~gate.r.is_safe

\* The file of a part has no category with a route: nothing could be
\* sniffed, or the sniffed MIME prefix is not image, video or audio.
Unrecognized(part) ==
    part.kind = "file" /\ PartCategory(part) \notin {"image", "video", "audio"}

\* The error names the offending file (nothing sniffed) or MIME prefix.
NamesOffendingType(error, file) ==
    IF file.mime = NoMime
    THEN error.msg = "Unsupported file type: " /\ error.arg = file.path
    ELSE error.type = "KeyError" /\ error.arg = file.mime[1]

\* Nothing was posted for the part, no default category was used, and the
\* turn ended with the error without a persona call.
RejectedUnsent ==
    /\ ~gate.r.ok
    /\ gate.r.posts = <<>>
    /\ gate.r.content_type = ""
    /\ \A i \in DOMAIN mod_log : mod_log[i].part # gate.part
    /\ pc = "done"
    /\ outcome.kind = "raised"
    /\ persona_calls = 0

\* C9 as stated: a submission of unrecognized category fails with an error
\* that identifies the offending type, is never given a default category
\* and is never posted.
C9_UnrecognizedFailsNamingType ==
    (gate.called /\ Unrecognized(gate.part)) =>
        /\ RejectedUnsent
        /\ NamesOffendingType(gate.r.error, gate.part.file)

\* C9 amended: a submission of unrecognized category always fails, is never
\* given a default category and is never posted; the error names the file
\* when nothing could be sniffed and names the MIME prefix when the prefix
\* has no route and the file is within the size limit; a file over the
\* limit whose prefix has no route fails with the size error instead.
C9_UnrecognizedFailsUnsent ==
    (gate.called /\ Unrecognized(gate.part)) =>
        /\ RejectedUnsent
        /\ IF gate.part.file.mime # NoMime /\ gate.part.file.size > MAX_FILE_SIZE_BYTES
           THEN gate.r.error.msg = "File too large: "
           ELSE NamesOffendingType(gate.r.error, gate.part.file)

\* C9 witness: a PDF within the size limit was refused with a KeyError
\* naming "application" and nothing was posted.
C9_Witness ==
    /\ gate.called
    /\ gate.part.kind = "file"
    /\ gate.part.file.mime = <<"application", "/", "pdf">>
    /\ gate.part.file.size <= MAX_FILE_SIZE_BYTES
    /\ gate.r.error.type = "KeyError"
    /\ gate.r.error.arg = "application"
    /\ gate.r.posts = <<>>
    /\ outcome.kind = "raised"

\* The repeat count create_repeated_cases works with.
EffectiveRepeats ==
    IF ev.num_repeats.is_none THEN ev.EVAL_NUM_REPEATS ELSE ev.num_repeats.value

\* C10: for N base cases and a repeat count R > 1, create_repeated_cases
\* returns exactly N*R cases, grouped by base case in input order and by run
\* 1..R within a base case, each named "{base}_run_{i}" with
\* metadata.run_number = i and metadata.base_case = the base case's name.
C10_RepeatedCasesShape ==
    (ev.done /\ EffectiveRepeats > 1) =>
        /\ Len(ev.out) = Len(ev.base_cases) * EffectiveRepeats
        /\ \A b \in DOMAIN ev.base_cases : \A i \in 1..EffectiveRepeats :
              LET case == ev.out[(b - 1) * EffectiveRepeats + i]
              IN /\ case.name = ev.base_cases[b].name \o "_run_" \o ToString(i)
                 /\ ~case.metadata.is_none
                 /\ case.metadata.dict["run_number"] = i
                 /\ case.metadata.dict["base_case"] = ev.base_cases[b].name

\* C10 witness: two base cases were expanded with R = 3 into six cases.
C10_Witness ==
    /\ ev.done
    /\ Len(ev.base_cases) = 2
    /\ EffectiveRepeats = 3
    /\ Len(ev.out) = 6
    /\ ev.out[6].name = ev.base_cases[2].name \o "_run_3"

\* C11: with a repeat count R <= 1 (given, or taken from EVAL_NUM_REPEATS
\* when num_repeats is None) create_repeated_cases returns the input list
\* unchanged: the same cases in the same order, not renamed, not duplicated
\* and with no metadata added.
C11_PassThroughWhenAtMostOne ==
    (ev.done /\ EffectiveRepeats <= 1) => ev.out = ev.base_cases

\* C11 witness: num_repeats was None, EVAL_NUM_REPEATS was 1, and two base
\* cases (the first without metadata) came back as they were.
C11_Witness ==
    /\ ev.done
    /\ ev.num_repeats.is_none
    /\ ev.EVAL_NUM_REPEATS = 1
    /\ Len(ev.base_cases) = 2
    /\ ev.base_cases[1].metadata = NoMetadata
    /\ ev.out = ev.base_cases

\* The fields the claim lists for each result class.
RequiredFields(cls) ==
    CASE cls = "ModerationResult" -> {"rationale"}
      [] cls = "TextModerationResult" ->
            {"rationale", "contains_pii", "is_unfriendly", "is_unprofessional"}
      [] cls = "ImageModerationResult" ->
            {"rationale", "contains_pii", "is_disturbing", "is_low_quality"}
      [] cls = "VideoModerationResult" ->
            {"rationale", "contains_pii", "is_disturbing", "is_low_quality"}
      [] cls = "AudioModerationResult" ->
            {"rationale", "transcription", "contains_pii", "is_unfriendly", "is_unprofessional"}

Constructed == "cls" \in DOMAIN ev /\ ev.step # "args"

\* C12: constructing a result class with rationale missing, or a category
\* variant with any of its flags (for audio also transcription) missing, is
\* a validation error naming the missing fields and yields no instance.
C12_AllVariantFieldsRequired ==
    (Constructed /\ RequiredFields(ev.cls) \ DOMAIN ev.data # {}) =>
        /\ ~ev.built.ok
        /\ "value" \notin DOMAIN ev.built
        /\ ev.built.error.type = "ValidationError"
        /\ ev.built.error.missing = RequiredFields(ev.cls) \ DOMAIN ev.data

\* C12 witness: AudioModerationResult(rationale=..., transcription=...) was
\* rejected for its three missing flags.
C12_Witness ==
    /\ Constructed
    /\ ev.cls = "AudioModerationResult"
    /\ DOMAIN ev.data = {"rationale", "transcription"}
    /\ ~ev.built.ok
    /\ ev.built.error.missing = {"contains_pii", "is_unfriendly", "is_unprofessional"}

OnlyRationaleGiven == Constructed /\ DOMAIN ev.data = {"rationale"}

\* C13 as stated: a result constructed with only a rationale is valid and
\* has every risk flag false and an empty transcription.
C13_FlagsDefaultWhenOmitted ==
    OnlyRationaleGiven =>
        /\ ev.built.ok
        /\ \A f \in Flags :
              f \in DOMAIN ev.built.value.fields /\ ev.built.value.fields[f] = FALSE
        /\ "transcription" \in DOMAIN ev.built.value.fields
        /\ ev.built.value.fields["transcription"] = ""

\* C13: no field has a default.  Constructed with only a rationale, the
\* base ModerationResult is valid and carries the rationale alone (no risk
\* flag, no transcription); every category variant is a validation error
\* naming each of its flags (and transcription for audio).
C13_NoDefaultsOnlyBaseAcceptsRationaleAlone ==
    OnlyRationaleGiven =>
        /\ ev.built.ok <=> ev.cls = "ModerationResult"
        /\ ev.built.ok =>
              /\ DOMAIN ev.built.value.fields = {"rationale"}
              /\ ev.built.value.fields["rationale"] = ev.data["rationale"]
        /\ ~ev.built.ok => ev.built.error.missing = RequiredFields(ev.cls) \ {"rationale"}

\* C13 witness: TextModerationResult(rationale="Test rationale") was
\* rejected for its three flags.
C13_Witness ==
    /\ OnlyRationaleGiven
    /\ ev.cls = "TextModerationResult"
    /\ ev.data["rationale"] = "Test rationale"
    /\ ~ev.built.ok
    /\ ev.built.error.missing = {"contains_pii", "is_unfriendly", "is_unprofessional"}

FiveMiB == 5 * 1024 * 1024
GateOnFile == gate.called /\ gate.part.kind = "file"
TooLarge(r) == ~r.ok /\ r.error.type = "ValueError" /\ r.error.msg = "File too large: "

\* C14 as stated: a file of more than 5 MiB is rejected with the 'File too
\* large' error and nothing is posted; a file of 5 MiB or less is not
\* rejected for its size.
C14_OversizedAlwaysFileTooLarge ==
    GateOnFile =>
        IF gate.part.file.size > FiveMiB
        THEN TooLarge(gate.r) /\ gate.r.posts = <<>>
        ELSE ~TooLarge(gate.r)

\* C14: a file of more than 5 MiB is rejected before anything is posted,
\* with the 'File too large' error when its type can be sniffed and with
\* the 'Unsupported file type' error (raised before the size is looked at)
\* when it cannot; a file of 5 MiB or less is not rejected for its size.
C14_OversizedRejectedUnsent ==
    GateOnFile =>
        IF gate.part.file.size > FiveMiB
        THEN /\ ~gate.r.ok
             /\ gate.r.posts = <<>>
             /\ \A i \in DOMAIN mod_log : mod_log[i].part # gate.part
             /\ persona_calls = 0
             /\ outcome.kind = "raised"
             /\ IF gate.part.file.mime = NoMime
                THEN gate.r.error.msg = "Unsupported file type: "
                ELSE /\ TooLarge(gate.r)
                     /\ gate.r.error.arg = "5.0MB. Maximum size is 5MB."
        ELSE ~TooLarge(gate.r)

\* C14 witness: a PNG of 5 MiB + 1 byte was refused as too large with
\* nothing posted, the turn ending with the error.
C14_Witness ==
    /\ GateOnFile
    /\ gate.part.file.mime = <<"image", "/", "png">>
    /\ gate.part.file.size = FiveMiB + 1
    /\ TooLarge(gate.r)
    /\ gate.r.posts = <<>>
    /\ outcome.kind = "raised"
    /\ outcome.error.type = "gr.Error"

GateDecided == gate.called /\ gate.r.ok

\* C15: the feedback the gate returns is the verdict's rationale, for audio
\* (and for no other category) prefixed with 'Transcription: "<text>"' and a
\* blank line when the verdict has a transcription; when the content is
\* unsafe that string is prefixed with 'Content flagged: ', and when it is
\* safe nothing is added.
C15_FeedbackIsRationaleWithMarkers ==
    GateDecided =>
        LET verdict == gate.response.body
            marker == IF gate.r.is_safe THEN "" ELSE "Content flagged: "
        IN IF PartCategory(gate.part) = "audio" /\ "transcription" \in DOMAIN verdict
           THEN gate.r.feedback =
                   marker \o "Transcription: \"" \o verdict["transcription"] \o "\"\n\n"
                          \o verdict["rationale"]
           ELSE gate.r.feedback = marker \o verdict["rationale"]

\* C15 witness: an audio file with contains_pii set was judged unsafe, and
\* the feedback is the flagged marker, the transcription, a blank line and
\* the rationale.
C15_Witness ==
    /\ GateDecided
    /\ PartCategory(gate.part) = "audio"
    /\ gate.response.body["contains_pii"]
    /\ ~gate.r.is_safe
    /\ gate.r.feedback =
          "Content flagged: Transcription: \"call me at 555-0100\"\n\nlooks fine"

ClassifierInvoked == srv.req.path \in ModerationRoutes /\ srv.calls # <<>>

\* The agent behind each route's moderate_* function.
RouteClassifier(path) ==
    CASE path = TextRoute -> "text_moderation_agent"
      [] path = ImageRoute -> "image_moderation_agent"
      [] path = VideoRoute -> "video_moderation_agent"
      [] path = AudioRoute -> "audio_moderation_agent"

\* C16: an invocation of moderate_text, moderate_image, moderate_video or
\* moderate_audio runs its agent exactly once; when that run fails nothing
\* is returned in its place (the failure reaches the route's caller as an
\* error, with no verdict), and when it succeeds what is returned is the
\* run's own output.
C16_OneModelCallNoRetry ==
    ClassifierInvoked =>
        /\ srv.calls = <<RouteClassifier(srv.req.path)>>
        /\ ~srv.run.ok =>
              /\ srv.returned = "none"
              /\ ~srv.ok
              /\ srv.status = 500
              /\ DOMAIN srv.body = {}
        /\ srv.run.ok => srv.returned = srv.run.output.class

\* C16 witness: the video route's model call failed; the agent was run once
\* and the request was answered with an error and no verdict.
C16_Witness ==
    /\ srv.req.path = VideoRoute
    /\ srv.calls = <<"video_moderation_agent">>
    /\ ~srv.run.ok
    /\ srv.returned = "none"
    /\ srv.status = 500

HarnessRunning == "harness" \in DOMAIN ev
HarnessFinished == HarnessRunning /\ ev.phase \in {"reported", "failed"}

\* The harness never makes an eleventh attempt, and "failed" is reached
\* only by a tenth failed attempt.
AtMostTenAttempts ==
    HarnessRunning =>
        /\ ev.task_attempts <= 10
        /\ ev.evaluator_attempts <= 10
        /\ ev.phase = "failed" => (ev.task_attempts = 10 \/ ev.evaluator_attempts = 10)
        /\ ev.phase = "task" => ev.task_attempts < 10
        /\ ev.phase = "evaluators" => ev.evaluator_attempts < 10

\* In the live path one gate call posts at most once, the API runs the
\* classifier at most once for it, the persona is run at most once in a
\* turn, and a failed call ends the turn with its error.
LiveCallsMadeOnce ==
    /\ Len(srv.calls) <= 1
    /\ persona_calls <= 1
    /\ gate.called =>
          /\ Len(gate.r.posts) <= 1
          /\ ~gate.r.ok => (pc = "done" /\ outcome.kind = "raised" /\ persona_calls = 0)
    /\ \A i \in DOMAIN mod_log : mod_log[i].verdict = "failed" => i = Len(mod_log)

\* C17: in the evaluation harness a task or evaluator is attempted at most
\* 10 times, after which its failure stands, and the evaluation of a case
\* always comes to an end; in the live path (the routes and
\* check_content_safety) a call is made once and a failed call is followed
\* by nothing but the end of the turn.
C17_RetryOnlyInHarnessAtMostTen ==
    /\ [](AtMostTenAttempts /\ LiveCallsMadeOnce)
    /\ [][HarnessFinished => ev' = ev]_vars
    /\ [][(gate.called /\ ~gate.r.ok) => (gate' = NoGate /\ pc' = "idle" /\ srv' = srv)]_vars
    /\ (HarnessRunning ~> HarnessFinished)

\* C17 witness: the task failed ten times and the case ended as failed
\* without an evaluator being run.
C17_Witness ==
    /\ HarnessRunning
    /\ ev.phase = "failed"
    /\ ev.task_attempts = 10
    /\ ev.evaluator_attempts = 0

AllFieldsGiven == Constructed /\ RequiredFields(ev.cls) \subseteq DOMAIN ev.data

C19_SuccessfulModerationYieldsFullVerdict ==
    \A category \in Categories :
        (srv.req.path = CategoryEndpoint(category) /\ srv.calls # <<>> /\ srv.run.ok) =>
            /\ srv.status = 200
            /\ srv.ok
            /\ {"rationale"} \cup DesignatedFlags(category) \subseteq DOMAIN srv.body

GateCalledDirectly == pair.done /\ "media" \in DOMAIN pair

\* C20: check_content_safety called with neither text nor media, or with
\* both, raises ValueError('Must provide exactly one of text or media') and
\* posts nothing; it never moderates the text while a media file was also
\* given.
C20_ExactlyOneOfTextOrMedia ==
    (GateCalledDirectly /\ ((pair.text = None) <=> (pair.media = NoFile))) =>
        /\ ~pair.r.ok
        /\ pair.r.error.type = "ValueError"
        /\ pair.r.error.msg = "Must provide exactly one of text or media"
        /\ pair.r.posts = <<>>

EmptyMessage == message.text = "" /\ message.files = <<>>

\* C21: a chat turn whose message has no text and no files ends with the
\* error 'Please provide a message or at least one file.' and the persona
\* model is not called for it.
C21_EmptyMessageRejected ==
    (pc = "done" /\ EmptyMessage) =>
        /\ outcome.kind = "raised"
        /\ outcome.error.msg = "Please provide a message or at least one file."
        /\ persona_calls = 0

PartFlagged == gate.called /\ gate.r.ok /\ ~gate.r.is_safe

\* C22: when a part is flagged, the turn returns the fixed placeholder
\* response together with exactly the past_messages it was given; the step
\* that blocks the turn, and the end of the blocked turn, leave the history
\* as it was, and the persona model is not called.
C22_BlockedTurnLeavesHistory ==
    /\ [](PartFlagged =>
            /\ pc = "done"
            /\ outcome.kind = "returned"
            /\ outcome.response =
                  "[This content was flagged by moderation and not sent to the AI. Please try again.]"
            /\ outcome.messages = past_messages
            /\ persona_calls = 0)
    /\ [][(PartFlagged \/ PartFlagged') => past_messages' = past_messages]_vars

\* C22 witness: after one successful turn, a second turn was blocked and
\* returned the two messages of the first.
C22_Witness ==
    /\ PartFlagged
    /\ Len(past_messages) = 2
    /\ outcome.response = BlockedResponse
    /\ outcome.messages = past_messages

\* The parts of the message in the claim's order: the text when there is
\* one, then the files in list order.
TextThenFiles ==
    (IF message.text # "" THEN <<"text">> ELSE <<>>)
    \o [i \in 1..Len(message.files) |-> "file"]

MediaCategories == {"image", "video", "audio"}

\* C24: a media route runs its classifier only on a payload whose sniffed
\* MIME prefix is the route's category; a payload of another category is
\* rejected, not classified and not answered with a verdict.
C24_RouteClassifiesOnlyItsCategory ==
    \A category \in MediaCategories :
        srv.req.path = CategoryEndpoint(category) =>
            /\ srv.calls # <<>> =>
                  (srv.req.file.mime # NoMime /\ srv.req.file.mime[1] = category)
            /\ srv.ok =>
                  (srv.req.file.mime # NoMime /\ srv.req.file.mime[1] = category)

Expanded == ev.done /\ "out" \in DOMAIN ev /\ EffectiveRepeats > 1

\* The keys of a base case's metadata (none when it is None).
BaseKeys(base) == IF base.metadata.is_none THEN {} ELSE DOMAIN base.metadata.dict

\* C25: for R > 1 every expanded case has its base case's inputs,
\* expected_output and evaluators; its metadata has the base metadata's
\* keys plus run_number and base_case, the latter two holding the run
\* number and the base name whatever the base metadata said, every other
\* key holding the base's value; and the list of base cases is after the
\* expansion what it was before.
C25_ExpansionKeepsFrame ==
    /\ [](Expanded =>
            \A b \in DOMAIN ev.base_cases : \A i \in 1..EffectiveRepeats :
               LET base == ev.base_cases[b]
                   case == ev.out[(b - 1) * EffectiveRepeats + i]
               IN /\ case.inputs = base.inputs
                  /\ case.expected_output = base.expected_output
                  /\ case.evaluators = base.evaluators
                  /\ ~case.metadata.is_none
                  /\ DOMAIN case.metadata.dict = BaseKeys(base) \cup {"run_number", "base_case"}
                  /\ case.metadata.dict["run_number"] = i
                  /\ case.metadata.dict["base_case"] = base.name
                  /\ \A k \in BaseKeys(base) \ {"run_number", "base_case"} :
                        case.metadata.dict[k] = base.metadata.dict[k])
    /\ [][("base_cases" \in DOMAIN ev /\ "base_cases" \in DOMAIN ev') =>
             ev'.base_cases = ev.base_cases]_vars

\* C25 witness: a base case whose metadata already had run_number 7 and
\* base_case "older" was expanded; its second copy says run 2 of its own
\* name.
C25_Witness ==
    /\ Expanded
    /\ Len(ev.base_cases) >= 1
    /\ ~ev.base_cases[1].metadata.is_none
    /\ "run_number" \in DOMAIN ev.base_cases[1].metadata.dict
    /\ ev.base_cases[1].metadata.dict["run_number"] = 7
    /\ ev.out[2].metadata.dict["run_number"] = 2
    /\ ev.out[2].metadata.dict["base_case"] = ev.base_cases[1].name

DistinctNames(cases) ==
    \A p \in DOMAIN cases : \A q \in DOMAIN cases : p # q => cases[p].name # cases[q].name

\* C26: for R > 1, when the base case names are pairwise distinct, so are
\* the names of all expanded cases, also when a base name ends in
\* "_run_<k>".
C26_ExpandedNamesDistinct ==
    (Expanded /\ DistinctNames(ev.base_cases)) => DistinctNames(ev.out)

\* C26 witness: base cases "pii" and "pii_run_1" were expanded with R = 3
\* into six cases, among them "pii_run_1" (run 1 of the first) and
\* "pii_run_1_run_1" (run 1 of the second).
C26_Witness ==
    /\ Expanded
    /\ EffectiveRepeats = 3
    /\ Len(ev.base_cases) = 2
    /\ ev.base_cases[1].name = "pii"
    /\ ev.base_cases[2].name = "pii_run_1"
    /\ ev.out[1].name = "pii_run_1"
    /\ ev.out[4].name = "pii_run_1_run_1"
    /\ DistinctNames(ev.out)

\* C27: two users of the interface never share a session ID or a
\* conversation span: turns of different users are recorded under different
\* session IDs, and a user who has not ended the conversation has no turn
\* recorded under a span that was already ended.
C27_SessionPerUser ==
    ui.built =>
        \A u \in Users : \A v \in Users \ {u} :
            /\ \A i \in DOMAIN ui.turns[u] : \A j \in DOMAIN ui.turns[v] :
                  ui.turns[u][i].session_id # ui.turns[v][j].session_id
            /\ u \notin ui.clicks => \A i \in DOMAIN ui.turns[u] : ~ui.turns[u][i].span_ended

\* C28: the SIGINT handler never runs while a child's handle is still
\* unassigned, and when the launcher has exited after a SIGINT it exited
\* through the handler's sys.exit with both children terminated (or already
\* gone), none left running.
C28_SigintTerminatesBothChildren ==
    launcher.started =>
        /\ launcher.handler > 0 => \A c \in Children : launcher.bound[c]
        /\ (launcher.signals > 0 /\ launcher.pc = "exited") =>
              /\ launcher.exit = "sys.exit(0)"
              /\ \A c \in Children : launcher.child[c] \in {"terminated", "exited"}

\* The turn ended with the persona agent's reply.
TurnSucceeded == pc = "done" /\ outcome.kind = "returned" /\ persona_calls = 1

\* C29: on a successful chat turn the feedback returned to the UI is that
\* of the last part moderated in the turn, i.e. of the turn's last part: its
\* verdict's rationale, after the transcription for an audio file; and it
\* is the empty string when the turn had no part to moderate.
C29_FeedbackOfLastPart ==
    TurnSucceeded =>
        IF parts = <<>> THEN /\ ~gate.called
                             /\ outcome.feedback = ""
        ELSE /\ GateDecided
             /\ gate.part = parts[Len(parts)]
             /\ LET verdict == gate.response.body
                IN outcome.feedback =
                      IF PartCategory(gate.part) = "audio" /\ "transcription" \in DOMAIN verdict
                      THEN "Transcription: \"" \o verdict["transcription"] \o "\"\n\n"
                                \o verdict["rationale"]
                      ELSE verdict["rationale"]

\* C29 witness: a text and an audio file were both moderated and passed, the
\* persona replied, and the feedback shown is the audio file's alone.
C29_Witness ==
    /\ TurnSucceeded
    /\ Len(parts) = 2
    /\ parts[1].kind = "text"
    /\ PartCategory(parts[2]) = "audio"
    /\ Len(mod_log) = 2
    /\ outcome.feedback = "Transcription: \"call me at 555-0100\"\n\nlooks fine"

\* C29, no part: an empty message without files went to the persona, and
\* the feedback shown is empty.
C29_WitnessNoPart ==
    /\ TurnSucceeded
    /\ parts = <<>>
    /\ outcome.feedback = ""

====
